---- MODULE Spec2Model ----
(***************************************************************************)
(* A model of LibRecommender's SIM ranking model (algorithms/sim.py), the  *)
(* evaluation driver (evaluate/computation.py) and the UserCF baseline     *)
(* (algorithms/user_cf.py), and of the evaluation data set                 *)
(* (data/transformed.py).                                                  *)
(*                                                                         *)
(* Conventions.                                                            *)
(*   - alpha and beta are floats in the code; the model keeps them as      *)
(*     integers in units of 1/Den, so 1.0 is Den and fused scores are kept *)
(*     in the same unit (a score s of a stage is Den*s in that unit).      *)
(*   - arrays indexed by position are sequences: position p of the code is *)
(*     position p+1 here, so "lower index first" means the same thing.     *)
(*   - arrays indexed by user or item id are functions over 0..n.          *)
(*   - embeddings have one dimension (a vector is an integer).             *)
(***************************************************************************)
EXTENDS Integers, Sequences, FiniteSets, TLC

VARIABLES sim, fw, cf, call, eval_set

vars == <<sim, fw, cf, call, eval_set>>

(***************************************************************************)
(* Bounds of the model.                                                    *)
(***************************************************************************)
Den == 2
MaxLong == 3
MaxShort == 2

(***************************************************************************)
(* Helpers.                                                                *)
(***************************************************************************)
Min(a, b) == IF a <= b THEN a ELSE b

Max(a, b) == IF a >= b THEN a ELSE b

RECURSIVE SumOver(_, _)
SumOver(S, f) ==
    IF S = {} THEN 0
    ELSE LET x == CHOOSE y \in S : TRUE
         IN f[x] + SumOver(S \ {x}, f)

\* All orders (sequences without repetition) of the elements of a finite set.
Perms(S) ==
    {p \in [1..Cardinality(S) -> S] : \A i, j \in 1..Cardinality(S) : i # j => p[i] # p[j]}

(***************************************************************************)
(* SIM: data the model is constructed from.                                *)
(***************************************************************************)
\* A user's chronological consumption history of length h (oldest first).
History(h, n_items) == [j \in 1..h |-> (j - 1) % n_items]

\* The data sets of n_users users whose histories have a length in lens.
DataInfos(n_users, n_items, lens) ==
    {[n_users |-> n_users, n_items |-> n_items, user_consumed |-> c] :
        c \in [0..(n_users - 1) -> {History(h, n_items) : h \in lens}]}

Tasks == {"rating", "ranking"}

LossTypes == {"cross_entropy", "focal", "bpr"}

(***************************************************************************)
(* SIM: the sequence cache (get_recent_dual_seqs is not part of the        *)
(* sources at hand; it is modelled from the specification's section 4.1).  *)
(***************************************************************************)
\* The most recent max_len items of a history, oldest first, padded on the
\* right with pad.
RecentSeq(consumed, max_len, pad) ==
    LET h == Len(consumed)
        n == Min(h, max_len)
    IN  [j \in 1..max_len |-> IF j <= n THEN consumed[h - n + j] ELSE pad]

RecentLen(consumed, max_len) == Min(Len(consumed), max_len)

\* One (seqs, lens) pair of arrays; row n_users is the unknown user's:
\* all padding, length 0.
get_recent_seqs(n_users, user_consumed, pad, max_len) ==
    [seqs |-> [u \in 0..n_users |->
                  IF u < n_users THEN RecentSeq(user_consumed[u], max_len, pad)
                  ELSE [j \in 1..max_len |-> pad]],
     lens |-> [u \in 0..n_users |->
                  IF u < n_users THEN RecentLen(user_consumed[u], max_len)
                  ELSE 0]]

get_recent_dual_seqs(n_users, user_consumed, pad, long_max_len, short_max_len) ==
    LET l == get_recent_seqs(n_users, user_consumed, pad, long_max_len)
        s == get_recent_seqs(n_users, user_consumed, pad, short_max_len)
    IN  [long_seqs |-> l.seqs, long_lens |-> l.lens,
         short_seqs |-> s.seqs, short_lens |-> s.lens]

\* The call of SIM.__init__ with a swapped pair of lengths.
BuildSeqCacheSwapped(a) ==
    get_recent_dual_seqs(a.data_info.n_users, a.data_info.user_consumed,
                         a.data_info.n_items, a.short_max_len, a.long_max_len)

\* SIM.__init__, lines 79-90: the cache is built from n_users, user_consumed,
\* the sentinel n_items and the two lengths.
BuildSeqCache(a) ==
    get_recent_dual_seqs(a.data_info.n_users, a.data_info.user_consumed,
                         a.data_info.n_items, a.long_max_len, a.short_max_len)

(***************************************************************************)
(* SIM: construction.                                                      *)
(***************************************************************************)
\* _check_params with a non-strict lower bound on search_topk.
CheckParamsLoose(m) ==
    IF ~(0 <= m.alpha /\ m.alpha <= Den) THEN "AssertionError"
    ELSE IF ~(0 <= m.beta /\ m.beta <= Den) THEN "AssertionError"
    ELSE IF ~(m.short_max_len > 0) THEN "AssertionError"
    ELSE IF ~(m.long_max_len >= m.search_topk /\ m.search_topk >= 0) THEN "AssertionError"
    ELSE IF m.task = "ranking" /\ m.loss_type \notin {"cross_entropy", "focal"}
         THEN "ValueError"
    ELSE "none"

\* SIM._check_params: the error it raises, or "none".
CheckParams(m) ==
    IF ~(0 <= m.alpha /\ m.alpha <= Den) THEN "AssertionError"
    ELSE IF ~(0 <= m.beta /\ m.beta <= Den) THEN "AssertionError"
    ELSE IF ~(m.short_max_len > 0) THEN "AssertionError"
    ELSE IF ~(m.long_max_len >= m.search_topk /\ m.search_topk > 0) THEN "AssertionError"
    ELSE IF m.task = "ranking" /\ m.loss_type \notin {"cross_entropy", "focal"}
         THEN "ValueError"
    ELSE "none"

\* The arguments of SIM(...) the model varies.
SimArgs(alphas, betas, topks, longs, shorts, tasklosses, infos) ==
    {[task |-> tl[1], loss_type |-> tl[2], alpha |-> al, beta |-> be,
      search_topk |-> tk, long_max_len |-> lo, short_max_len |-> sh,
      lower_upper_bound |-> <<0, Den>>, data_info |-> di] :
        al \in alphas, be \in betas, tk \in topks, lo \in longs, sh \in shorts,
        tl \in tasklosses, di \in infos}

NoModel ==
    [status |-> "none", error |-> "none", steps |-> <<>>]

\* SIM.__init__ (it runs once per model object): the fields are assigned, the
\* sequence cache is built, the feature sizes are derived and last the
\* parameters are checked.
Construct(a) ==
    LET cache == BuildSeqCache(a)
        m == [task |-> a.task, loss_type |-> a.loss_type,
              alpha |-> a.alpha, beta |-> a.beta,
              search_topk |-> a.search_topk,
              long_max_len |-> a.long_max_len,
              short_max_len |-> a.short_max_len,
              lower_bound |-> a.lower_upper_bound[1],
              upper_bound |-> a.lower_upper_bound[2],
              n_users |-> a.data_info.n_users,
              n_items |-> a.data_info.n_items,
              user_consumed |-> a.data_info.user_consumed,
              cached_long_seqs |-> cache.long_seqs,
              cached_long_lens |-> cache.long_lens,
              cached_short_seqs |-> cache.short_seqs,
              cached_short_lens |-> cache.short_lens]
        err == CheckParams(m)
        steps == <<"get_recent_dual_seqs", "check_sparse_indices",
                   "check_dense_values", "_check_params">>
    IN  /\ sim.status = "none"
        /\ sim' = [status |-> IF err = "none" THEN "ok" ELSE "failed",
                   error |-> err, steps |-> steps] @@ m
        /\ fw' = [status |-> "none"]
        /\ UNCHANGED <<cf, call, eval_set>>

(***************************************************************************)
(* SIM: the forward pass (build_model and the modules it calls).           *)
(***************************************************************************)
EmbVals == {-1, 1}

\* seq_feats: one embedding per item id, the padding id n_items included.
EmbTables(n_items) == [0..n_items -> EmbVals]

\* tf.sequence_mask(lens, maxlen) of one example.
SequenceMask(len, maxlen) == [j \in 1..maxlen |-> j <= len]

\* The score every padding position gets in the GSU.
PadScore == -1000000000

\* The GSU's scores without the mask applied.
GsuScoresUnmasked(seq_feats, item, long_seq, long_len) ==
    [j \in 1..Len(long_seq) |-> seq_feats[item] * seq_feats[long_seq[j]]]

\* SIM._gsu_module, lines 184-189: the relevance of every position of the long
\* sequence to the target item, padding positions set to PadScore.
GsuScores(seq_feats, item, long_seq, long_len) ==
    LET seq_mask == SequenceMask(long_len, Len(long_seq))
    IN  [j \in 1..Len(long_seq) |->
            IF seq_mask[j] THEN seq_feats[item] * seq_feats[long_seq[j]]
            ELSE PadScore]

\* A top_k that prefers the higher position among equal scores.
TopKHighIndexFirst(scores, k) ==
    {i \in DOMAIN scores :
        Cardinality({j \in DOMAIN scores :
            \/ scores[j] > scores[i]
            \/ scores[j] = scores[i] /\ j > i}) < k}

\* tf.math.top_k(scores, k, sorted=False), line 190: the positions of the k
\* largest scores; of two equal scores the lower position comes first.
TopK(scores, k) ==
    {i \in DOMAIN scores :
        Cardinality({j \in DOMAIN scores :
            \/ scores[j] > scores[i]
            \/ scores[j] = scores[i] /\ j < i}) < k}

\* tf.gather(seq_mask, indices, axis=1, batch_dims=1), line 203.
GatherMask(long_seq, long_len, indices) ==
    LET seq_mask == SequenceMask(long_len, Len(long_seq))
    IN  [j \in 1..Len(indices) |-> seq_mask[indices[j]]]

\* tf.gather(self.long_seq_embeds, indices, batch_dims=1), line 202.
GatherEmbeds(seq_feats, long_seq, indices) ==
    [j \in 1..Len(indices) |-> seq_feats[long_seq[indices[j]]]]

\* The attention weight of a key before normalisation: an exponential of the
\* compatibility of query and key, hence positive.
Compat(query, key) == 2 ^ (query * key + 1)

\* The attention primitive (tf_attention is not part of the sources at hand;
\* it is modelled from the specification's section 4.4): the weights of the
\* valid positions are normalised to sum to 1, and an all-invalid mask gives
\* the zero vector.  The result is the fraction num / den.
tf_attention(query, keys, mask) ==
    LET valid == {j \in DOMAIN keys : mask[j]}
    IN  IF valid = {} THEN [num |-> 0, den |-> 1]
        ELSE [num |-> SumOver(valid, [j \in valid |-> Compat(query, keys[j]) * keys[j]]),
              den |-> SumOver(valid, [j \in valid |-> Compat(query, keys[j])])]

\* SIM._esu_module, lines 207-208.
EsuModule(target_embeds, top_k_seq_embeds, top_k_masks) ==
    tf_attention(target_embeds, top_k_seq_embeds, top_k_masks)

\* _din_module with a mask that takes every position for valid.
DinModuleNoMask(seq_feats, item, short_seq, short_len) ==
    tf_attention(seq_feats[item],
                 [j \in 1..Len(short_seq) |-> seq_feats[short_seq[j]]],
                 [j \in 1..Len(short_seq) |-> TRUE])

\* SIM._din_module, lines 210-213.
DinModule(seq_feats, item, short_seq, short_len) ==
    tf_attention(seq_feats[item],
                 [j \in 1..Len(short_seq) |-> seq_feats[short_seq[j]]],
                 SequenceMask(short_len, Len(short_seq)))

\* The fusion with the two weights exchanged.
FusedOutputSwapped(alpha, beta, first_stage_out, second_stage_out) ==
    beta * first_stage_out + alpha * second_stage_out

\* build_model, line 124: self.output, in units of 1/Den.
FusedOutput(alpha, beta, first_stage_out, second_stage_out) ==
    alpha * first_stage_out + beta * second_stage_out

\* build_model, line 125: self.inference_output.
InferenceOutput(first_stage_out, second_stage_out) == second_stage_out

\* build_model, line 126: the scores self.serving_topk ranks.
ServingScore(first_stage_out, second_stage_out) == second_stage_out

\* predict_tf_feat, lines 113-116: np.clip for rating, the sigmoid (kept as a
\* term) for ranking; x is in units of 1/Den.
OutputTransform(task, x, lower_bound, upper_bound) ==
    IF task = "rating"
    THEN [fn |-> "clip", x |-> Max(lower_bound, Min(x, upper_bound))]
    ELSE [fn |-> "sigmoid", x |-> x]

\* predict_tf_feat, line 112: the tensor the evaluation driver runs.
PredictedTensor(output, inference_output) == output

\* TfBase._get_feed_dict (not part of the sources at hand) for one example:
\* the placeholders of _build_placeholders fed with the user's cached rows.
GetFeedDict(m, user, item) ==
    [user_indices |-> user, item_indices |-> item,
     long_seqs |-> m.cached_long_seqs[user],
     long_seq_lens |-> m.cached_long_lens[user],
     short_seqs |-> m.cached_short_seqs[user],
     short_seq_lens |-> m.cached_short_lens[user]]

\* predict_tf_feat on a batch of one example (user, item).  The outputs of
\* the two feed-forward networks are inputs of the model: first_stage_out and
\* second_stage_out.  top_k(sorted=False) leaves the order of its choice open:
\* indices is any order of the chosen positions.
PredictTfFeat(user, item, seq_feats, first_stage_out, second_stage_out) ==
    /\ sim.status = "ok"
    /\ fw.status = "none"
    /\ LET feed_dict == GetFeedDict(sim, user, item)
           long_seq == feed_dict.long_seqs
           long_len == feed_dict.long_seq_lens
           short_seq == feed_dict.short_seqs
           short_len == feed_dict.short_seq_lens
           scores == GsuScores(seq_feats, item, long_seq, long_len)
       IN  \E indices \in Perms(TopK(scores, sim.search_topk)) :
              LET top_k_masks == GatherMask(long_seq, long_len, indices)
                  top_k_seq_embeds == GatherEmbeds(seq_feats, long_seq, indices)
                  output == FusedOutput(sim.alpha, sim.beta,
                                        first_stage_out, second_stage_out)
                  inference_output == InferenceOutput(first_stage_out, second_stage_out)
                  raw == PredictedTensor(output, Den * inference_output)
              IN  fw' = [status |-> "done",
                         user |-> user, item |-> item, seq_feats |-> seq_feats,
                         long_seq |-> long_seq, long_seq_len |-> long_len,
                         short_seq |-> short_seq, short_seq_len |-> short_len,
                         scores |-> scores,
                         indices |-> indices,
                         top_k_masks |-> top_k_masks,
                         top_k_seq_embeds |-> top_k_seq_embeds,
                         long_seq_out |-> EsuModule(seq_feats[item], top_k_seq_embeds,
                                                    top_k_masks),
                         short_seq_out |-> DinModule(seq_feats, item, short_seq,
                                                     short_len),
                         first_stage_out |-> first_stage_out,
                         second_stage_out |-> second_stage_out,
                         output |-> output,
                         inference_output |-> inference_output,
                         serving_score |-> ServingScore(first_stage_out,
                                                        second_stage_out),
                         raw_preds |-> raw,
                         preds |-> OutputTransform(sim.task, raw, sim.lower_bound,
                                                   sim.upper_bound)]
    /\ UNCHANGED <<sim, cf, call, eval_set>>

\* compute_preds, lines 64-69: the batch's predictions are appended to y_pred
\* and the loop goes on to the next batch.
NextBatch ==
    /\ fw.status = "done"
    /\ fw' = [status |-> "none"]
    /\ UNCHANGED <<sim, cf, call, eval_set>>

(***************************************************************************)
(* Specifications of the SIM model.                                        *)
(***************************************************************************)
Init ==
    /\ sim = NoModel
    /\ fw = [status |-> "none"]
    /\ cf = [status |-> "none"]
    /\ call = [op |-> "none"]
    /\ eval_set = [status |-> "none"]

\* Construction over every combination of valid and invalid parameters.
CtorArgs ==
    SimArgs(-1..(Den + 1), -1..(Den + 1),
            0..(MaxLong + 1), 0..MaxLong, 0..MaxShort, Tasks \X LossTypes,
            DataInfos(2, 2, {0, 1, MaxLong + 1}))

ConstructAny == sim.status = "none" /\ \E a \in CtorArgs : Construct(a)

SpecCtor == Init /\ [][ConstructAny]_vars

\* The search units: the sequence lengths and the embeddings vary.
GsuArgs ==
    SimArgs({Den}, {Den}, 1..MaxLong, 1..MaxLong, 1..MaxShort,
            {<<"ranking", "cross_entropy">>}, DataInfos(1, 2, 0..(MaxLong + 1)))

ConstructGsu == sim.status = "none" /\ \E a \in GsuArgs : Construct(a)

ForwardGsu ==
    /\ sim.status = "ok" /\ fw.status = "none"
    /\ \E user \in 0..sim.n_users, item \in 0..sim.n_items,
          seq_feats \in EmbTables(sim.n_items) :
           PredictTfFeat(user, item, seq_feats, 0, 0)

NextGsu == ConstructGsu \/ ForwardGsu \/ NextBatch

SpecGsu == Init /\ [][NextGsu]_vars

\* The ranking head: the weights and the two stages' scores vary.
ScoreVals == {-1, 0, 1}

FuseArgs ==
    SimArgs(0..Den, 0..Den, {1}, {1}, {1},
            {<<"rating", "cross_entropy">>, <<"ranking", "cross_entropy">>,
             <<"ranking", "focal">>},
            DataInfos(1, 2, {0, 1}))

ConstructFuse == sim.status = "none" /\ \E a \in FuseArgs : Construct(a)

ForwardFuse ==
    /\ sim.status = "ok" /\ fw.status = "none"
    /\ \E user \in 0..sim.n_users, item \in 0..sim.n_items,
          first_stage_out \in ScoreVals, second_stage_out \in ScoreVals :
           PredictTfFeat(user, item, [i \in 0..sim.n_items |-> 1],
                         first_stage_out, second_stage_out)

NextFuse == ConstructFuse \/ ForwardFuse \/ NextBatch

SpecFuse == Init /\ [][NextFuse]_vars

(***************************************************************************)
(* UserCF: the fitted model.                                               *)
(***************************************************************************)
MaxK == 2
MaxNRec == 2

\* The elements of a finite set of integers in ascending order.
RECURSIVE SortedSeq(_)
SortedSeq(S) ==
    IF S = {} THEN <<>>
    ELSE LET m == CHOOSE x \in S : \A y \in S : x <= y
         IN  <<m>> \o SortedSeq(S \ {m})

\* The first n elements of a sequence (all of them when it is shorter).
Take(seq, n) == SubSeq(seq, 1, Min(n, Len(seq)))

SeqRange(seq) == {seq[j] : j \in DOMAIN seq}

\* Stored similarities (0: the pair is not stored) and labels.
SimVals == {-1, 1, 2}

Ratings == {1, 2}

CfUsers == 0..2

CfItems == 0..1

UserPairs == {p \in CfUsers \X CfUsers : p[1] < p[2]}

SimMatrices == [UserPairs -> SimVals \cup {0}]

\* A user's row of the training data: item -> label, 0 for no interaction.
Rows ==
    {[i \in CfItems |-> 0],
     [i \in CfItems |-> IF i = 0 THEN 1 ELSE 0],
     [i \in CfItems |-> IF i = 1 THEN 1 ELSE 0],
     [i \in CfItems |-> IF i = 0 THEN 1 ELSE 2]}

TrainSets == [CfUsers -> Rows]

\* Row u of a sparse matrix kept in CSR form with sorted indices: the pairs
\* <<column, value>> of its stored entries, by ascending column.
CsrRow(cols, val) ==
    LET stored == SortedSeq({c \in cols : val[c] # 0})
    IN  [j \in 1..Len(stored) |-> <<stored[j], val[stored[j]]>>]

\* UserCF.fit, lines 41-58: the interaction matrix, its transpose, the
\* consumed items and the similarity matrix the similarity function returned.
FittedModel(task, k, train, sims) ==
    LET n_users == Cardinality(CfUsers)
        n_items == Cardinality(CfItems)
        sym(u, v) == IF u < v THEN sims[<<u, v>>] ELSE sims[<<v, u>>]
        labels == {<<u, i>> \in CfUsers \X CfItems : train[u][i] # 0}
    IN  [status |-> "fitted", task |-> task, k |-> k,
         n_users |-> n_users, n_items |-> n_items,
         default_prediction |->
            IF task = "rating" /\ labels # {}
            THEN [num |-> SumOver(labels, [p \in labels |-> train[p[1]][p[2]]]),
                  den |-> Cardinality(labels)]
            ELSE [num |-> 0, den |-> 1],
         lower_bound |-> 1, upper_bound |-> 2,
         user_interaction |-> [u \in CfUsers |-> CsrRow(CfItems, train[u])],
         item_interaction |->
            [i \in CfItems |-> CsrRow(CfUsers, [u \in CfUsers |-> train[u][i]])],
         user_consumed |->
            [u \in CfUsers |-> SortedSeq({i \in CfItems : train[u][i] # 0})],
         sim_matrix |->
            [u \in CfUsers |->
                CsrRow(CfUsers \ {u}, [v \in CfUsers \ {u} |-> sym(u, v)])]]

Fit(task, k, train, sims) ==
    /\ cf.status = "none"
    /\ cf' = FittedModel(task, k, train, sims)
    /\ call' = [op |-> "none"]
    /\ UNCHANGED <<sim, fw, eval_set>>

\* sorted(pairs, key=itemgetter(1), reverse=True): a stable sort of a sequence
\* of pairs by descending second component.
SortPairsDesc(pairs) ==
    LET rank(i) == 1 + Cardinality({j \in DOMAIN pairs :
                        \/ pairs[j][2] > pairs[i][2]
                        \/ pairs[j][2] = pairs[i][2] /\ j < i})
    IN  [r \in DOMAIN pairs |-> pairs[CHOOSE i \in DOMAIN pairs : rank(i) = r]]

\* takewhile(lambda x: x[1] > 0, pairs)
RECURSIVE TakeWhilePositive(_)
TakeWhilePositive(pairs) ==
    IF pairs = <<>> \/ pairs[1][2] <= 0 THEN <<>>
    ELSE <<pairs[1]>> \o TakeWhilePositive(Tail(pairs))

SumSeq(seq) == SumOver(DOMAIN seq, seq)

(***************************************************************************)
(* UserCF.predict.                                                         *)
(***************************************************************************)
Known(m, u, i) == 0 <= u /\ u < m.n_users /\ 0 <= i /\ i < m.n_items

\* Base._check_unknown (not part of the sources at hand): the positions of
\* the pairs with an unknown user or item, as a list, and the two arrays with
\* those positions set to 0 for the time of the computation.
CheckUnknown(m, users, items) ==
    LET unknown == {j \in DOMAIN users : ~Known(m, users[j], items[j])}
    IN  [unknown_num |-> Cardinality(unknown),
         unknown_index |-> SortedSeq(unknown),
         user |-> [j \in DOMAIN users |-> IF j \in unknown THEN 0 ELSE users[j]],
         item |-> [j \in DOMAIN items |-> IF j \in unknown THEN 0 ELSE items[j]]]

\* np.clip of the fraction p to [lower, upper].
ClipFraction(p, lower, upper) ==
    IF p.num < lower * p.den THEN [num |-> lower, den |-> 1]
    ELSE IF p.num > upper * p.den THEN [num |-> upper, den |-> 1]
    ELSE p

\* predict, lines 86-128: the prediction of one known pair, a fraction.
PredictOne(m, u, i) ==
    LET sim_row == m.sim_matrix[u]
        item_row == m.item_interaction[i]
        common_users == SortedSeq({sim_row[j][1] : j \in DOMAIN sim_row}
                                    \cap {item_row[j][1] : j \in DOMAIN item_row})
        simOf(v) == (CHOOSE e \in SeqRange(sim_row) : e[1] = v)[2]
        labelOf(v) == (CHOOSE e \in SeqRange(item_row) : e[1] = v)[2]
        \* zip(common_labels, common_sims)
        zipped == [j \in DOMAIN common_users |->
                      <<labelOf(common_users[j]), simOf(common_users[j])>>]
    IN  IF common_users = <<>> \/ \A j \in DOMAIN zipped : zipped[j][2] <= 0
        THEN m.default_prediction
        ELSE LET nbs == Take(TakeWhilePositive(SortPairsDesc(zipped)), m.k)
                 sum_sims == SumSeq([j \in DOMAIN nbs |-> nbs[j][2]])
             IN  IF m.task = "rating"
                 THEN ClipFraction([num |-> SumSeq([j \in DOMAIN nbs |-> nbs[j][1] * nbs[j][2]]),
                                    den |-> sum_sims],
                                   m.lower_bound, m.upper_bound)
                 ELSE [num |-> sum_sims, den |-> Len(nbs)]

\* predict, line 131: preds[unknown_index] = default_prediction, preds being
\* a Python list (line 82) and unknown_index a list of positions: a list
\* takes only an integer or a slice for an index.
ListSetItem(preds, index, value) ==
    [status |-> "TypeError", preds |-> <<>>]

\* UserCF.predict on arrays of users and items.
Predict(users, items) ==
    /\ cf.status = "fitted"
    /\ call.op = "none"
    /\ LET chk == CheckUnknown(cf, users, items)
           preds == [j \in DOMAIN users |-> PredictOne(cf, chk.user[j], chk.item[j])]
           out == IF chk.unknown_num > 0
                  THEN ListSetItem(preds, chk.unknown_index, cf.default_prediction)
                  ELSE [status |-> "ok", preds |-> preds]
       IN  call' = [op |-> "predict", user |-> users, item |-> items,
                    status |-> out.status, preds |-> out.preds,
                    \* return preds[0] if len(user) == 1 else preds
                    scalar |-> Len(users) = 1]
    /\ UNCHANGED <<sim, fw, cf, eval_set>>

(***************************************************************************)
(* UserCF.recommend_user.                                                  *)
(***************************************************************************)
\* Base._check_unknown_user (not part of the sources at hand): the user id
\* when it is a trained one, None otherwise.
CheckUnknownUser(m, user) ==
    IF 0 <= user /\ user < m.n_users
    THEN [none |-> FALSE, val |-> user]
    ELSE [none |-> TRUE]

\* recommend_user, line 137: "not user" holds of None and of 0.
NotTruthy(x) == x.none \/ x.val = 0

\* Decimal places of a score.
RoundDigits == 4

\* The integer nearest to n / d (d > 0), a tie going to the even one.
RoundHalfEven(n, d) ==
    LET q == n \div d
        r == n % d
    IN  IF 2 * r < d THEN q
        ELSE IF 2 * r > d THEN q + 1
        ELSE IF q % 2 = 0 THEN q ELSE q + 1

\* recommend_user, line 174: round(v[0] / v[1], 4) on numpy floats, in units
\* of 10^-4; a zero divisor gives nan or an infinity (numpy warns, it does
\* not raise).
Score(total, weight) ==
    IF weight = 0
    THEN [k |-> IF total = 0 THEN "nan" ELSE IF total > 0 THEN "inf" ELSE "-inf",
          v |-> 0]
    ELSE [k |-> "num",
          v |-> IF weight > 0
                THEN RoundHalfEven(total * 10 ^ RoundDigits, weight)
                ELSE RoundHalfEven((0 - total) * 10 ^ RoundDigits, 0 - weight)]

\* The order of two scores as floats; nan is neither below nor above anything.
ScoreLess(a, b) ==
    /\ a.k # "nan" /\ b.k # "nan"
    /\ \/ a.k = "-inf" /\ b.k # "-inf"
       \/ a.k # "inf" /\ b.k = "inf"
       \/ a.k = "num" /\ b.k = "num" /\ a.v < b.v

\* recommend_user, lines 153-156: the k most similar neighbours.
Neighbours(m, user) == Take(SortPairsDesc(m.sim_matrix[user]), m.k)

\* The items of a sequence of <<item, value>> rows in order of their first
\* occurrence: the insertion order of the result dict.
RECURSIVE FirstOccurrences(_, _)
FirstOccurrences(items, seen) ==
    IF items = <<>> THEN <<>>
    ELSE IF items[1] \in seen THEN FirstOccurrences(Tail(items), seen)
    ELSE <<items[1]>> \o FirstOccurrences(Tail(items), seen \cup {items[1]})

RECURSIVE Flatten(_)
Flatten(seqs) == IF seqs = <<>> THEN <<>> ELSE seqs[1] \o Flatten(Tail(seqs))

\* Candidates that keep the items the user consumed.
CandidatesUnfiltered(m, user, nbs) ==
    LET rows == [n \in DOMAIN nbs |->
                    [j \in DOMAIN m.user_interaction[nbs[n][1]] |->
                        <<m.user_interaction[nbs[n][1]][j][1],
                          nbs[n][2] * m.user_interaction[nbs[n][1]][j][2],
                          nbs[n][2]>>]]
    IN  Flatten(rows)

\* recommend_user, lines 157-172: the contributions <<item, n_sim * v, n_sim>>
\* of the neighbours' items the user has not consumed, in the order the loops
\* meet them.
Candidates(m, user, nbs) ==
    LET u_consumed == SeqRange(m.user_consumed[user])
        rows == [n \in DOMAIN nbs |->
                    SelectSeq([j \in DOMAIN m.user_interaction[nbs[n][1]] |->
                                  <<m.user_interaction[nbs[n][1]][j][1],
                                    nbs[n][2] * m.user_interaction[nbs[n][1]][j][2],
                                    nbs[n][2]>>],
                              LAMBDA c : c[1] \notin u_consumed)]
    IN  Flatten(rows)

\* recommend_user, line 174: the <<item, score>> pairs in the insertion order
\* of the result dict.
RankItems(contribs) ==
    LET order == FirstOccurrences([j \in DOMAIN contribs |-> contribs[j][1]], {})
        of(i) == {j \in DOMAIN contribs : contribs[j][1] = i}
    IN  [r \in DOMAIN order |->
            <<order[r],
              Score(SumOver(of(order[r]), [j \in of(order[r]) |-> contribs[j][2]]),
                    SumOver(of(order[r]), [j \in of(order[r]) |-> contribs[j][3]]))>>]

\* The divisor of every score, by item.
Weights(contribs) ==
    LET items == {contribs[j][1] : j \in DOMAIN contribs}
        of(i) == {j \in DOMAIN contribs : contribs[j][1] = i}
    IN  [i \in items |-> SumOver(of(i), [j \in of(i) |-> contribs[j][3]])]

\* rank_items.sort(key=lambda x: -x[1]), line 175: the orders a stable sort by
\* descending score can leave.  Without a nan there is one; a nan compares
\* false with everything and the order the sort leaves is then not determined
\* by the scores.
SortedByScore(rank_items) ==
    IF \E j \in DOMAIN rank_items : rank_items[j][2].k = "nan"
    THEN {[r \in DOMAIN rank_items |-> rank_items[p[r]]] :
             p \in Perms(DOMAIN rank_items)}
    ELSE LET rank(i) == 1 + Cardinality({j \in DOMAIN rank_items :
                            \/ ScoreLess(rank_items[i][2], rank_items[j][2])
                            \/ /\ rank_items[j][2] = rank_items[i][2]
                               /\ j < i})
         IN  {[r \in DOMAIN rank_items |->
                 rank_items[CHOOSE i \in DOMAIN rank_items : rank(i) = r]]}

\* random.sample(rank_items, k=n_rec): any n_rec of the pairs in any order.
RandomSample(rank_items, n_rec) ==
    {[r \in 1..n_rec |-> rank_items[p[r]]] :
        p \in {q \in [1..n_rec -> DOMAIN rank_items] :
                  \A a, b \in 1..n_rec : a # b => q[a] # q[b]}}

\* UserCF.recommend_user.
RecommendUser(user, n_rec, random_rec) ==
    /\ cf.status = "fitted"
    /\ call.op = "none"
    /\ LET checked == CheckUnknownUser(cf, user)
           base == [op |-> "recommend_user", user |-> user, n_rec |-> n_rec,
                    random_rec |-> random_rec, weights |-> <<>>, items |-> <<>>]
       IN  IF NotTruthy(checked)
           THEN call' = base @@ [result |-> "None"]
           ELSE LET sim_row == cf.sim_matrix[checked.val]
                IN  IF sim_row = <<>> \/ \A j \in DOMAIN sim_row : sim_row[j][2] <= 0
                    THEN call' = base @@ [result |-> "-1"]
                    ELSE LET nbs == Neighbours(cf, checked.val)
                             contribs == Candidates(cf, checked.val, nbs)
                             rank_items == RankItems(contribs)
                         IN  \E sorted \in SortedByScore(rank_items) :
                             \E returned \in
                                   IF random_rec
                                   THEN IF Len(sorted) < n_rec THEN {sorted}
                                        ELSE RandomSample(sorted, n_rec)
                                   ELSE {Take(sorted, n_rec)} :
                                 call' = [base EXCEPT !.items = returned,
                                                      !.weights = Weights(contribs)]
                                         @@ [result |-> "list"]
    /\ UNCHANGED <<sim, fw, cf, eval_set>>

\* The caller takes the result of the call.
CallReturns ==
    /\ call.op # "none"
    /\ call' = [op |-> "none"]
    /\ UNCHANGED <<sim, fw, cf, eval_set>>

(***************************************************************************)
(* Specification of the UserCF model.                                      *)
(***************************************************************************)
FitAny ==
    /\ cf.status = "none"
    /\ \E task \in Tasks, k \in 1..MaxK, train \in TrainSets, sims \in SimMatrices :
          Fit(task, k, train, sims)

\* The batches predict is called on: one or two pairs.
PredictBatches ==
    LET ids == {<<u, i>> : u \in {1, cf.n_users}, i \in {0, cf.n_items}}
    IN  {<<p>> : p \in ids} \cup {<<p, q>> : p \in ids, q \in ids}

PredictAny ==
    /\ cf.status = "fitted" /\ call.op = "none"
    /\ \E batch \in PredictBatches :
          Predict([j \in DOMAIN batch |-> batch[j][1]],
                  [j \in DOMAIN batch |-> batch[j][2]])

RecommendAny ==
    /\ cf.status = "fitted" /\ call.op = "none"
    /\ \E user \in 0..cf.n_users, n_rec \in 1..MaxNRec, random_rec \in BOOLEAN :
          RecommendUser(user, n_rec, random_rec)

NextCF == FitAny \/ PredictAny \/ RecommendAny \/ CallReturns

SpecCF == Init /\ [][NextCF]_vars


(***************************************************************************)
(* TransformedEvalSet (data/transformed.py).  Positions are 1-based here;  *)
(* labels are kept as the integers 0 and 1 (0.0 and 1.0 after sampling).   *)
(***************************************************************************)
MaxExamples == 2
MaxNeg == 2
MaxEvalSize == 8

\* The item ids 0 .. n_items-1 of the data.
EvalItems == 0..2

\* The examples <<user, item, label>> an evaluation set is made of.
EvalRows == {<<0, 0, 1>>, <<0, 1, 0>>, <<1, 0, 1>>, <<1, 2, 1>>}

EvalData == UNION {[1..n -> EvalRows] : n \in 0..MaxExamples}

\* _get_positive_consumed: by user, the sorted distinct items of the examples
\* with a non-zero label (of all examples when every label is 0).
PositiveConsumed(user_indices, item_indices, labels) ==
    LET label_all_positive == \A j \in DOMAIN labels : labels[j] = 0
        pos == {j \in DOMAIN labels : label_all_positive \/ labels[j] # 0}
        users == {user_indices[j] : j \in pos}
    IN  [u \in users |->
            SortedSeq({item_indices[j] : j \in {q \in pos : user_indices[q] = u}})]

\* TransformedEvalSet.__init__
EvalSetInit(user_indices, item_indices, labels) ==
    /\ eval_set.status = "none"
    /\ eval_set' =
          [status |-> "ok", error |-> "none",
           user_indices |-> user_indices, item_indices |-> item_indices,
           labels |-> labels, has_sampled |-> FALSE,
           positive_consumed |->
               PositiveConsumed(user_indices, item_indices, labels),
           \* history of the object, for the properties
           orig_users |-> user_indices, orig_items |-> item_indices,
           orig_labels |-> labels, called |-> FALSE, first_call |-> FALSE,
           pre_users |-> <<>>, pre_items |-> <<>>,
           items_neg |-> <<>>, num_neg |-> 0]
    /\ UNCHANGED <<sim, fw, cf, call>>

\* The items the sampler may return for one example (u, i): an item the user
\* has not consumed and other than i; any other item when there is none.
NegativeChoices(user_consumed_set, u, i, n_items) ==
    LET all == 0..(n_items - 1)
        consumed == IF u \in DOMAIN user_consumed_set
                    THEN user_consumed_set[u] ELSE {}
        unconsumed == {n \in all : n # i /\ n \notin consumed}
    IN  IF unconsumed # {} THEN unconsumed
        ELSE IF all \ {i} # {} THEN all \ {i} ELSE all

\* negatives_from_unconsumed (libreco/sampling, not part of the sources at
\* hand): the arrays it can return, num_neg items for every example in order.
negatives_from_unconsumed(user_consumed_set, users, items, n_items, num_neg) ==
    {f \in [1..(Len(users) * num_neg) -> 0..(n_items - 1)] :
        \A p \in 1..(Len(users) * num_neg) :
            f[p] \in NegativeChoices(user_consumed_set,
                                     users[((p - 1) \div num_neg) + 1],
                                     items[((p - 1) \div num_neg) + 1], n_items)}

\* _sample_neg_items
SampleNegItems(users, items, n_items, num_neg) ==
    LET user_consumed_set ==
            [u \in DOMAIN eval_set.positive_consumed |->
                SeqRange(eval_set.positive_consumed[u])]
    IN  negatives_from_unconsumed(user_consumed_set, users, items, n_items, num_neg)

\* np.repeat(a, r)
Repeat(a, r) == [p \in 1..(Len(a) * r) |-> a[((p - 1) \div r) + 1]]

\* labels = zeros; labels[::step] = 1.0
StridedLabels(len, step) ==
    [p \in 1..len |-> IF (p - 1) % step = 0 THEN 1 ELSE 0]

\* The negatives written block by block instead of example by example.
FillNegativesBlocked(item_indices, items_neg, num_neg) ==
    LET n == Len(item_indices) \div (num_neg + 1)
    IN  [p \in DOMAIN item_indices |->
            IF (p - 1) % (num_neg + 1) = 0 THEN item_indices[p]
            ELSE items_neg[(((p - 1) % (num_neg + 1)) - 1) * n
                           + ((p - 1) \div (num_neg + 1)) + 1]]

\* build_negatives, lines 151-152: for i in range(num_neg), slice
\* (i+1)::(num_neg+1) of item_indices takes slice i::num_neg of items_neg.
FillNegatives(item_indices, items_neg, num_neg) ==
    [p \in DOMAIN item_indices |->
        IF (p - 1) % (num_neg + 1) = 0 THEN item_indices[p]
        ELSE items_neg[(((p - 1) % (num_neg + 1)) - 1)
                       + ((p - 1) \div (num_neg + 1)) * num_neg + 1]]

\* build_negatives, line 150: the outcome of the assert statement.
AssertLengths(item_indices, items_neg, num_neg) ==
    IF num_neg = 0 THEN "ZeroDivisionError"
    ELSE IF Len(item_indices) * num_neg # Len(items_neg) * (num_neg + 1)
         THEN "AssertionError"
    ELSE "none"

\* TransformedEvalSet.build_negatives; items_neg is what the sampler returned
\* under the seed of the call.
BuildNegatives(n_items, num_neg, items_neg) ==
    /\ eval_set.status = "ok"
    /\ LET user_indices == Repeat(eval_set.user_indices, num_neg + 1)
           item_indices == Repeat(eval_set.item_indices, num_neg + 1)
           labels == StridedLabels(Len(item_indices), num_neg + 1)
           err == AssertLengths(item_indices, items_neg, num_neg)
       IN  eval_set' =
             [eval_set EXCEPT
                !.has_sampled = TRUE,
                !.user_indices = user_indices,
                !.item_indices = IF err = "none"
                                 THEN FillNegatives(item_indices, items_neg, num_neg)
                                 ELSE item_indices,
                !.labels = labels,
                !.error = err,
                !.called = TRUE,
                !.first_call = ~eval_set.called,
                !.pre_users = eval_set.user_indices,
                !.pre_items = eval_set.item_indices,
                !.items_neg = items_neg,
                !.num_neg = num_neg]
    /\ UNCHANGED <<sim, fw, cf, call>>

(***************************************************************************)
(* Specification of the evaluation set.                                    *)
(***************************************************************************)
NewEvalSet ==
    /\ eval_set.status = "none"
    /\ \E data \in EvalData :
          EvalSetInit([j \in DOMAIN data |-> data[j][1]],
                      [j \in DOMAIN data |-> data[j][2]],
                      [j \in DOMAIN data |-> data[j][3]])

BuildNegativesAny ==
    /\ eval_set.status = "ok"
    /\ \E num_neg \in 0..MaxNeg :
          /\ Len(eval_set.user_indices) * (num_neg + 1) <= MaxEvalSize
          /\ \E items_neg \in SampleNegItems(eval_set.user_indices,
                                              eval_set.item_indices,
                                              Cardinality(EvalItems), num_neg) :
                BuildNegatives(Cardinality(EvalItems), num_neg, items_neg)

NextEval == NewEvalSet \/ BuildNegativesAny

SpecEval == Init /\ [][NextEval]_vars


(***************************************************************************)
(* Claims about the SIM model.                                             *)
(***************************************************************************)
\* C1: construction fails whenever alpha or beta lies outside [0,1], or
\* short_max_len <= 0, or search_topk <= 0, or search_topk > long_max_len, or
\* the task is ranking and loss_type is not supported; hence every model that
\* was constructed has 0 <= alpha, beta <= 1, short_max_len > 0 and
\* long_max_len >= search_topk > 0.
C1_InvalidParamsFail ==
    sim.status # "none" =>
        /\ ( \/ sim.alpha < 0 \/ sim.alpha > Den
             \/ sim.beta < 0 \/ sim.beta > Den
             \/ sim.short_max_len <= 0
             \/ sim.search_topk <= 0
             \/ sim.search_topk > sim.long_max_len
             \/ (sim.task = "ranking" /\ sim.loss_type \notin {"cross_entropy", "focal"})
           ) => sim.status = "failed" /\ sim.error \in {"AssertionError", "ValueError"}
        /\ sim.status = "ok" =>
              /\ 0 <= sim.alpha /\ sim.alpha <= Den
              /\ 0 <= sim.beta /\ sim.beta <= Den
              /\ sim.short_max_len > 0
              /\ sim.long_max_len >= sim.search_topk /\ sim.search_topk > 0

\* C1's case: a construction that failed only because search_topk exceeds
\* long_max_len.
C1_Witness ==
    /\ sim.status = "failed"
    /\ sim.search_topk > sim.long_max_len /\ sim.search_topk > 0
    /\ sim.alpha = 0 /\ sim.beta = Den /\ sim.short_max_len > 0
    /\ sim.task = "rating"

\* C2: the predictions the evaluation driver returns (before the sigmoid or
\* clip) and the scores the serving top-K ranks are computed from the
\* second-stage score alone (the score itself, or at most its beta-scaled
\* value): they depend neither on the first-stage score nor on alpha.
C2_InferenceSecondStageOnly ==
    fw.status = "done" =>
        /\ fw.raw_preds \in {Den * fw.second_stage_out,
                              sim.beta * fw.second_stage_out}
        /\ fw.serving_score = fw.second_stage_out

\* C3 as stated: the training output is alpha*first_stage + beta*second_stage,
\* and whenever alpha = 0 it equals the second-stage score exactly.
C3_FusionAlphaZeroIsSecondStage ==
    fw.status = "done" =>
        /\ fw.output = sim.alpha * fw.first_stage_out + sim.beta * fw.second_stage_out
        /\ sim.alpha = 0 => fw.output = Den * fw.second_stage_out

\* C3 as amended: the training output is alpha*first_stage + beta*second_stage;
\* whenever alpha = 0 and beta = 1 it equals the second-stage score exactly.
C3_Fusion ==
    fw.status = "done" =>
        /\ fw.output = sim.alpha * fw.first_stage_out + sim.beta * fw.second_stage_out
        /\ (sim.alpha = 0 /\ sim.beta = Den) => fw.output = Den * fw.second_stage_out

\* C3's case: a forward pass of a model with alpha = 0 and beta = 1 whose two
\* stage scores are non-zero and differ.
C3_Witness ==
    /\ fw.status = "done"
    /\ sim.alpha = 0 /\ sim.beta = Den
    /\ fw.first_stage_out = 1 /\ fw.second_stage_out = -1

\* The number of entries of a boolean sequence that are false.
CountFalse(mask) == Cardinality({j \in DOMAIN mask : ~mask[j]})

\* C4: the mask the GSU returns is the sequence mask gathered at the selected
\* indices; if long_seq_len < search_topk exactly search_topk - long_seq_len
\* of its search_topk entries are false, otherwise all entries are true.
C4_GatheredMask ==
    fw.status = "done" =>
        /\ Len(fw.top_k_masks) = sim.search_topk
        /\ \A j \in 1..sim.search_topk :
              fw.top_k_masks[j] = (fw.indices[j] <= fw.long_seq_len)
        /\ fw.long_seq_len < sim.search_topk =>
              CountFalse(fw.top_k_masks) = sim.search_topk - fw.long_seq_len
        /\ fw.long_seq_len >= sim.search_topk =>
              CountFalse(fw.top_k_masks) = 0

\* C4's case: fewer real positions than search_topk, and a padding embedding
\* that is more relevant to the target than a real position's.
C4_Witness ==
    /\ fw.status = "done"
    /\ 0 < fw.long_seq_len /\ fw.long_seq_len < sim.search_topk
    /\ sim.search_topk < sim.long_max_len
    /\ \E j \in 1..fw.long_seq_len :
          fw.seq_feats[fw.item] * fw.seq_feats[fw.long_seq[j]]
            < fw.seq_feats[fw.item] * fw.seq_feats[sim.n_items]

\* The positions the GSU selected.
Selected == {fw.indices[j] : j \in DOMAIN fw.indices}

\* C5: the selected positions are exactly search_topk distinct positions,
\* every selected position scores at least as high as every unselected one,
\* and of two positions with equal scores the lower one is selected first;
\* so the scores determine the selected set.
C5_ExactTopK ==
    fw.status = "done" =>
        /\ Len(fw.indices) = sim.search_topk
        /\ Cardinality(Selected) = sim.search_topk
        /\ Selected \subseteq 1..sim.long_max_len
        /\ \A i \in Selected : \A j \in (1..sim.long_max_len) \ Selected :
              /\ fw.scores[i] >= fw.scores[j]
              /\ fw.scores[i] = fw.scores[j] => i < j

\* C5's case: two real positions with equal scores, one selected and one not.
C5_Witness ==
    /\ fw.status = "done"
    /\ \E i \in Selected : \E j \in (1..fw.long_seq_len) \ Selected :
          /\ i <= fw.long_seq_len
          /\ fw.scores[i] = fw.scores[j]

C8_UnknownPairsGetDefault ==
    call.op = "predict" =>
        /\ call.status = "ok"
        /\ \A j \in DOMAIN call.user :
              call.preds[j] =
                  IF Known(cf, call.user[j], call.item[j])
                  THEN PredictOne(cf, call.user[j], call.item[j])
                  ELSE cf.default_prediction

\* C9: for every known user id in [0, n_users), user 0 included,
\* recommend_user returns a list of (item, score) pairs of length <= n_rec;
\* None or -1 is returned only when the user is unknown.
C9_KnownUserGetsList ==
    call.op = "recommend_user" =>
        /\ (0 <= call.user /\ call.user < cf.n_users) =>
              call.result = "list" /\ Len(call.items) <= call.n_rec
        /\ call.result \in {"None", "-1"} =>
              ~(0 <= call.user /\ call.user < cf.n_users)

\* C10: the list recommend_user returns, for any n_rec and either value of
\* random_rec, is sorted by descending score, and items with equal score
\* appear in ascending item-id order.
C10_SortedDescTiesAscending ==
    (call.op = "recommend_user" /\ call.result = "list") =>
        \A a, b \in DOMAIN call.items :
            a < b =>
                /\ ~ScoreLess(call.items[a][2], call.items[b][2])
                /\ call.items[a][2] = call.items[b][2] =>
                      call.items[a][1] < call.items[b][1]

\* C11: no item of the list recommend_user returns is one the user consumed,
\* whichever neighbours are chosen and whatever n_rec and random_rec are.
C11_NoConsumedItem ==
    (call.op = "recommend_user" /\ call.result = "list") =>
        \A j \in DOMAIN call.items :
            call.items[j][1] \notin SeqRange(cf.user_consumed[call.user])

\* A list is returned although one of the chosen neighbours holds an item the
\* user consumed.
C11_Witness ==
    /\ call.op = "recommend_user" /\ call.result = "list"
    /\ call.items # <<>>
    /\ \E n \in DOMAIN Neighbours(cf, call.user) :
          \E c \in DOMAIN cf.user_interaction[Neighbours(cf, call.user)[n][1]] :
              cf.user_interaction[Neighbours(cf, call.user)[n][1]][c][1]
                  \in SeqRange(cf.user_consumed[call.user])

\* C12: in every construction with invalid parameters the error is raised
\* before the sequence cache is built and before the feature sizes are
\* derived: no such step precedes _check_params.
C12_ValidationBeforeComputation ==
    sim.status = "failed" =>
        \A j \in DOMAIN sim.steps :
            sim.steps[j] = "_check_params" =>
                \A i \in 1..(j - 1) :
                    sim.steps[i] \notin {"get_recent_dual_seqs",
                                         "check_sparse_indices",
                                         "check_dense_values"}

\* C15: in recommend_user the divisor of every candidate item's score, the
\* accumulated similarity of the neighbours that hold the item, is strictly
\* positive.
C15_PositiveDivisor ==
    (call.op = "recommend_user" /\ call.result = "list") =>
        \A i \in DOMAIN call.weights : call.weights[i] > 0

(***************************************************************************)
(* Claims about the evaluation set.                                        *)
(***************************************************************************)
\* C13: after one call build_negatives(n_items, num_neg, seed), num_neg >= 1,
\* on a set of n examples the set has n*(num_neg+1) examples; position
\* j*(num_neg+1) holds the original (user_j, item_j) with label 1.0, the next
\* num_neg positions hold user_j with label 0.0 and the negatives
\* items_neg[j*num_neg .. j*num_neg+num_neg-1] in order; positive_consumed is
\* unchanged.
C13_NegativeLayout ==
    (eval_set.status = "ok" /\ eval_set.first_call /\ eval_set.num_neg >= 1) =>
        LET n == Len(eval_set.orig_users)
            k == eval_set.num_neg
        IN  /\ eval_set.error = "none"
            /\ Len(eval_set.user_indices) = n * (k + 1)
            /\ Len(eval_set.item_indices) = n * (k + 1)
            /\ Len(eval_set.labels) = n * (k + 1)
            /\ \A j \in 0..(n - 1) :
                  /\ eval_set.user_indices[j * (k + 1) + 1] = eval_set.orig_users[j + 1]
                  /\ eval_set.item_indices[j * (k + 1) + 1] = eval_set.orig_items[j + 1]
                  /\ eval_set.labels[j * (k + 1) + 1] = 1
                  /\ \A i \in 1..k :
                        /\ eval_set.user_indices[j * (k + 1) + 1 + i]
                              = eval_set.orig_users[j + 1]
                        /\ eval_set.labels[j * (k + 1) + 1 + i] = 0
                        /\ eval_set.item_indices[j * (k + 1) + 1 + i]
                              = eval_set.items_neg[j * k + i]
            /\ eval_set.positive_consumed =
                  PositiveConsumed(eval_set.orig_users, eval_set.orig_items,
                                   eval_set.orig_labels)

\* A first call with two negatives per example on two examples, the sampler
\* having returned four negatives that are not all alike.
C13_Witness ==
    /\ eval_set.status = "ok" /\ eval_set.first_call
    /\ eval_set.num_neg = 2 /\ Len(eval_set.orig_users) = 2
    /\ eval_set.items_neg[1] # eval_set.items_neg[2]
    /\ eval_set.items_neg[2] # eval_set.items_neg[3]

\* C14: after one or more build_negatives calls (the last of which returned
\* normally) every example labelled 1.0 is
\* one of the (user, item) pairs supplied to the constructor, the sampling
\* of every call was done from the original users and items, and has_sampled
\* is true.
C14_PositivesAreOriginal ==
    (eval_set.status = "ok" /\ eval_set.called /\ eval_set.error = "none") =>
        /\ \A p \in DOMAIN eval_set.labels :
              eval_set.labels[p] = 1 =>
                  \E j \in DOMAIN eval_set.orig_users :
                      /\ eval_set.user_indices[p] = eval_set.orig_users[j]
                      /\ eval_set.item_indices[p] = eval_set.orig_items[j]
        /\ eval_set.pre_users = eval_set.orig_users
        /\ eval_set.pre_items = eval_set.orig_items
        /\ eval_set.has_sampled

====
